---- MODULE Spec2Model ----
(***************************************************************************)
(* undofs: a FUSE overlay that keeps every revision of a file.             *)
(*                                                                         *)
(* The model has two layers.  The backing store (the host file system      *)
(* below the backing root) is a tree of version directories, one per user  *)
(* path; the handlers of undofs_fops.c and the helpers of undofs_util.c    *)
(* are operators over that store, translated statement by statement.       *)
(*                                                                         *)
(* Spec      runs the handlers one at a time (one action per handler).     *)
(* SpecConc  runs two transport threads whose handlers interleave at the   *)
(*           granularity of the backing-store system calls.                *)
(* SpecMangle runs the name mangler and demangler on path strings.         *)
(* SpecStored runs the handlers one at a time from a backing root that    *)
(*           already stores one written file.                              *)
(***************************************************************************)
EXTENDS Integers, Sequences, FiniteSets, TLC

(***************************************************************************)
(* Bounds of the model.                                                    *)
(***************************************************************************)
\* handler calls explored per behaviour of Spec
MaxOps == 3
\* highest revision number a version directory may hold
MaxRev == 3
\* file descriptors the transport may hold open at once
MaxFd == 2

(***************************************************************************)
(* User paths.  A user path is the sequence of its components; <<>> is     *)
(* "/".  Component names are alphabetic, so strtol() of a mangled child    *)
(* entry ("f.node") is 0.                                                  *)
(***************************************************************************)
Root == <<>>
Paths == {Root, <<"a">>, <<"b">>, <<"a", "c">>}

\* A user path whose mangled form does not fit in PATH_MAX bytes.
TooLong == <<"toolong">>
UserPaths == Paths \cup {TooLong}

Parent(p) == SubSeq(p, 1, Len(p) - 1)
Name(p) == p[Len(p)]
IsPrefix(a, b) == Len(a) <= Len(b) /\ SubSeq(b, 1, Len(a)) = a
Children(p) == {c \in Paths : c # Root /\ Parent(c) = p}

\* File contents; "" is the empty file.
Data == {"x"}
\* Symlink targets: an absolute path to a file that exists on the host, and
\* one whose parent directory does not exist.  Both lie outside the backing
\* root, so following them never touches a version directory.
Targets == {"hostfile", "nowhere"}
Resolves(t) == t = "hostfile"

(***************************************************************************)
(* The backing store.  F[p] describes the backing directory D(p):          *)
(*   exists   the directory D(p) exists                                    *)
(*   dir      D(p)/dir exists                                              *)
(*   deleted  D(p)/deleted exists                                          *)
(*   revs     the numeric children of D(p): revision number -> file        *)
(*   ino      revision number -> the link group of the file's inode: 0 for *)
(*            an inode with one name, and the same positive number for all *)
(*            the names link() has given one inode                         *)
(* A file is [kind, data, mtime]: a regular file with its content, or a    *)
(* symlink with its target; mtime is "now" for a time stamp set by the     *)
(* kernel and "set" for one set by utime().                                *)
(***************************************************************************)
VARIABLES
    fs,       \* the backing store
    fds,      \* open file descriptors: fd -> [h, d, v, w] (the file D(d)/v, open for writing or not) or NoFh
    last,     \* the last handler call and its result
    wcount,   \* per path: successful write-creating calls, -1 once disturbed
    nops,     \* handler calls so far
    pc,       \* SpecConc: per thread, the position in its handler
    loc,      \* SpecConc: per thread, the handler's local variables
    mpath,    \* SpecMangle: the user path, a string (sequence of characters)
    mres      \* SpecMangle: the last call of the mangler or demangler and its result

vars == <<fs, fds, last, wcount, nops, pc, loc, mpath, mres>>

\* no call of the mangler yet
NoMangle == [op |-> "none", arg |-> <<>>, ret |-> 0, s |-> <<>>]

NoRevs == [r \in {} |-> "none"]
NoNode == [exists |-> FALSE, dir |-> FALSE, deleted |-> FALSE, revs |-> NoRevs,
           ino |-> NoRevs]
EmptyDir == [exists |-> TRUE, dir |-> FALSE, deleted |-> FALSE, revs |-> NoRevs,
             ino |-> NoRevs]

RegFile(data, mtime) == [kind |-> "reg", data |-> data, mtime |-> mtime]
LnkFile(target) == [kind |-> "lnk", data |-> target, mtime |-> "now"]

\* A backing path: the directory D(d) itself (self), or the child D(d)/v.
DirPath(p) == [d |-> p, self |-> TRUE, v |-> 0]
FilePath(p, v) == [d |-> p, self |-> FALSE, v |-> v]

Max(S) == CHOOSE m \in S : \A n \in S : n <= m

(***************************************************************************)
(* System calls on the backing store.                                      *)
(***************************************************************************)
\* lstat(2) succeeds: the path names something (symlinks are not followed).
LExists(F, bp) ==
    /\ F[bp.d].exists
    /\ bp.self \/ bp.v \in DOMAIN F[bp.d].revs

\* access(path, F_OK) == 0: like stat(2), symlinks are followed.
Access(F, bp) ==
    /\ LExists(F, bp)
    /\ \/ bp.self
       \/ F[bp.d].revs[bp.v].kind = "reg"
       \/ Resolves(F[bp.d].revs[bp.v].data)

\* The parent directory of D(p) exists on the backing store.
ParentExists(F, p) == p = Root \/ F[Parent(p)].exists

\* D(p)/v becomes the file f on an inode of its own.
PutFile(F, p, v, f) ==
    [F EXCEPT ![p].revs = [r \in (DOMAIN @) \cup {v} |-> IF r = v THEN f ELSE @[r]],
              ![p].ino = [r \in (DOMAIN @) \cup {v} |-> IF r = v THEN 0 ELSE @[r]]]

\* The content of the existing file D(p)/v becomes f: the change is made to
\* the inode, and shows under every name the inode has.
Overwrite(F, p, v, f) ==
    LET g == F[p].ino[v]
    IN  IF g = 0
            THEN [F EXCEPT ![p].revs[v] = f]
            ELSE [x \in Paths |->
                    [F[x] EXCEPT !.revs = [r \in DOMAIN @ |->
                                             IF F[x].ino[r] = g THEN f ELSE @[r]]]]

(***************************************************************************)
(* undofs_util.c                                                           *)
(***************************************************************************)
\* The entries readdir() returns for D(p): ".", "..", the markers, the
\* revisions, the mangled children and, in the backing root, the log file.
\* t is the shape of the name, n the number a revision is named by, and
\* name the component a mangled child "<name>.node" stands for.
\* The return value of undofs_versiondir_path; on -1 errno is ENAMETOOLONG.
undofs_versiondir_path(p) == IF p = TooLong THEN -1 ELSE 0

DirEntries(F, p) ==
    {[t |-> "dot", n |-> 0, name |-> ""]}
        \cup (IF F[p].dir THEN {[t |-> "dir", n |-> 0, name |-> ""]} ELSE {})
        \cup (IF F[p].deleted THEN {[t |-> "deleted", n |-> 0, name |-> ""]} ELSE {})
        \cup {[t |-> "rev", n |-> r, name |-> ""] : r \in DOMAIN F[p].revs}
        \cup {[t |-> "node", n |-> 0, name |-> Name(c)] :
                 c \in {c \in Children(p) : F[c].exists}}
        \cup (IF p = Root THEN {[t |-> "log", n |-> 0, name |-> ""]} ELSE {})

\* strtol(d_name, NULL, 10): the leading decimal digits of the name, and 0
\* for a name that starts with none (".", "dir", "deleted", "f.node").
strtol(e) == IF e.t = "rev" THEN e.n ELSE 0

undofs_latest_version(F, p) ==
    IF ~F[p].exists
        THEN -1
        ELSE Max({-1} \cup {strtol(e) : e \in DirEntries(F, p)})

is_directory(F, bp) == bp.self /\ F[bp.d].exists /\ F[bp.d].dir

is_deleted(F, bp) == bp.self /\ F[bp.d].exists /\ F[bp.d].deleted

\* undofs_latest_path without the step past the latest revision of a
\* tombstoned path
undofs_latest_path_stale(F, p) ==
    LET directory_path == DirPath(p)
    IN  IF is_directory(F, directory_path)
            THEN directory_path
            ELSE FilePath(p, undofs_latest_version(F, p))

undofs_latest_path(F, p) ==
    LET version == undofs_latest_version(F, p)
        directory_path == DirPath(p)
        v == IF is_deleted(F, directory_path) THEN version + 1 ELSE version
    IN  IF is_directory(F, directory_path) THEN directory_path ELSE FilePath(p, v)

\* undelete that reports success and leaves the marker
undelete_kept(F, bp) == [ok |-> TRUE, F |-> F]

\* unlink(path + "/deleted")
undelete(F, bp) ==
    IF is_deleted(F, bp)
        THEN [ok |-> TRUE, F |-> [F EXCEPT ![bp.d].deleted = FALSE]]
        ELSE [ok |-> FALSE, F |-> F]

\* a touch that opens the marker without O_EXCL
touch_shared(F, p, m) ==
    IF F[p].exists
        THEN [ok |-> TRUE, F |-> [F EXCEPT ![p][m] = TRUE]]
        ELSE [ok |-> FALSE, F |-> F]

\* open(path, O_CREAT | O_EXCL | O_WRONLY) of the marker D(p)/m
touch(F, p, m) ==
    IF F[p].exists /\ ~F[p][m]
        THEN [ok |-> TRUE, F |-> [F EXCEPT ![p][m] = TRUE]]
        ELSE [ok |-> FALSE, F |-> F]

\* What "/bin/cp -a src dst" leaves behind when it runs to its exit.  A
\* missing source or destination directory makes cp exit 1 with nothing
\* copied.  A symlink source replaces the destination; a regular source is
\* written into the destination, and through it when the destination is a
\* symlink (the symlink itself stays).
CpA(F, src, dst) ==
    IF ~LExists(F, src) \/ src.self \/ dst.self \/ ~F[dst.d].exists
        THEN F
        ELSE LET f == F[src.d].revs[src.v]
             IN  IF /\ f.kind = "reg"
                    /\ LExists(F, dst)
                    /\ F[dst.d].revs[dst.v].kind = "lnk"
                     THEN F
                 ELSE IF f.kind = "reg" /\ LExists(F, dst)
                     THEN Overwrite(F, dst.d, dst.v, f)
                     ELSE PutFile(F, dst.d, dst.v, f)

\* clone_file with source and destination swapped
clone_file_swapped(F, src, dst, cp) ==
    IF cp = "exit"
        THEN [ok |-> TRUE, F |-> CpA(F, dst, src)]
        ELSE [ok |-> FALSE, F |-> F]

\* cp is the outcome of the child process: "exit" (WIFEXITED, whatever the
\* exit status) or "signal" (killed before it copied anything).
clone_file(F, src, dst, cp) ==
    IF cp = "exit"
        THEN [ok |-> TRUE, F |-> CpA(F, src, dst)]
        ELSE [ok |-> FALSE, F |-> F]

\* mkdir(2) of the backing directory D(p)
MkdirBacking(F, p) ==
    IF F[p].exists THEN [ok |-> FALSE, err |-> "EEXIST", F |-> F]
    ELSE IF ~ParentExists(F, p) THEN [ok |-> FALSE, err |-> "ENOENT", F |-> F]
    ELSE [ok |-> TRUE, err |-> "", F |-> [F EXCEPT ![p] = EmptyDir]]

\* undofs_new_path without the refusal of a directory
undofs_new_path_anywhere(F, p, cp) ==
    LET version == undofs_latest_version(F, p)
        directory_path == DirPath(p)
    IN  IF undofs_versiondir_path(p) # 0
            THEN [ok |-> FALSE, err |-> "ENAMETOOLONG", F |-> F, v |-> -1]
        ELSE IF version >= 0
            THEN IF is_deleted(F, directory_path)
                     THEN [ok |-> TRUE, err |-> "",
                           F |-> undelete(F, directory_path).F, v |-> version + 1]
                     ELSE LET c == clone_file(F, FilePath(p, version),
                                              FilePath(p, version + 1), cp)
                          IN  IF c.ok
                                  THEN [ok |-> TRUE, err |-> "", F |-> c.F, v |-> version + 1]
                                  ELSE [ok |-> FALSE, err |-> "ENOENT", F |-> F,
                                        v |-> version + 1]
        ELSE LET m == MkdirBacking(F, p)
             IN  [ok |-> m.ok, err |-> m.err, F |-> m.F, v |-> version + 1]

\* Result: ok, errno, the store, and the revision number of fpath.  errno
\* after a failed clone is the one left by the last failing call before it,
\* the access() probe of is_deleted.
undofs_new_path(F, p, cp) ==
    LET version == undofs_latest_version(F, p)
        directory_path == DirPath(p)
    IN  IF undofs_versiondir_path(p) # 0
            THEN [ok |-> FALSE, err |-> "ENAMETOOLONG", F |-> F, v |-> -1]
        ELSE IF is_directory(F, directory_path)
            THEN [ok |-> FALSE, err |-> "EISDIR", F |-> F, v |-> -1]
        ELSE IF version >= 0
            THEN IF is_deleted(F, directory_path)
                     THEN [ok |-> TRUE, err |-> "",
                           F |-> undelete(F, directory_path).F, v |-> version + 1]
                     ELSE LET c == clone_file(F, FilePath(p, version),
                                              FilePath(p, version + 1), cp)
                          IN  IF c.ok
                                  THEN [ok |-> TRUE, err |-> "", F |-> c.F, v |-> version + 1]
                                  ELSE [ok |-> FALSE, err |-> "ENOENT", F |-> F,
                                        v |-> version + 1]
        ELSE LET m == MkdirBacking(F, p)
             IN  [ok |-> m.ok, err |-> m.err, F |-> m.F, v |-> version + 1]

(***************************************************************************)
(* More system calls, as the handlers use them.                            *)
(***************************************************************************)
\* creat(path, mode) == open(path, O_CREAT | O_WRONLY | O_TRUNC, mode).
\* h is what the descriptor refers to: the revision file, or the host file
\* a symlink revision points to.
Creat(F, bp) ==
    IF bp.self \/ ~F[bp.d].exists
        THEN [ok |-> FALSE, err |-> "ENOENT", F |-> F, h |-> "none"]
    ELSE IF ~LExists(F, bp)
        THEN [ok |-> TRUE, err |-> "", F |-> PutFile(F, bp.d, bp.v, RegFile("", "now")),
              h |-> "file"]
    ELSE IF F[bp.d].revs[bp.v].kind = "reg"
        THEN [ok |-> TRUE, err |-> "", F |-> Overwrite(F, bp.d, bp.v, RegFile("", "now")),
              h |-> "file"]
    ELSE IF Resolves(F[bp.d].revs[bp.v].data)
        THEN [ok |-> TRUE, err |-> "", F |-> F, h |-> "host"]
    ELSE [ok |-> FALSE, err |-> "ENOENT", F |-> F, h |-> "none"]

\* open(path, O_CREAT | O_EXCL | O_WRONLY, mode)
CreatExcl(F, bp) ==
    IF bp.self \/ ~F[bp.d].exists
        THEN [ok |-> FALSE, err |-> "ENOENT", F |-> F]
    ELSE IF LExists(F, bp)
        THEN [ok |-> FALSE, err |-> "EEXIST", F |-> F]
    ELSE [ok |-> TRUE, err |-> "", F |-> PutFile(F, bp.d, bp.v, RegFile("", "now"))]

\* symlink(target, path)
Symlink(F, target, bp) ==
    IF bp.self \/ ~F[bp.d].exists
        THEN [ok |-> FALSE, err |-> "ENOENT", F |-> F]
    ELSE IF LExists(F, bp)
        THEN [ok |-> FALSE, err |-> "EEXIST", F |-> F]
    ELSE [ok |-> TRUE, err |-> "", F |-> PutFile(F, bp.d, bp.v, LnkFile(target))]

\* open(path, flags) with flags holding neither O_CREAT nor O_TRUNC; valid is
\* FALSE for the empty path undofs_new_path leaves behind on EISDIR.
Open(F, bp, valid, write) ==
    IF ~valid \/ ~LExists(F, bp)
        THEN [ok |-> FALSE, err |-> "ENOENT", h |-> "none"]
    ELSE IF bp.self
        THEN IF write THEN [ok |-> FALSE, err |-> "EISDIR", h |-> "none"]
                      ELSE [ok |-> TRUE, err |-> "", h |-> "dir"]
    ELSE IF F[bp.d].revs[bp.v].kind = "reg"
        THEN [ok |-> TRUE, err |-> "", h |-> "file"]
    ELSE IF Resolves(F[bp.d].revs[bp.v].data)
        THEN [ok |-> TRUE, err |-> "", h |-> "host"]
    ELSE [ok |-> FALSE, err |-> "ENOENT", h |-> "none"]

\* truncate(path, 0)
Truncate(F, bp) ==
    IF ~LExists(F, bp) THEN [ok |-> FALSE, err |-> "ENOENT", F |-> F]
    ELSE IF bp.self THEN [ok |-> FALSE, err |-> "EISDIR", F |-> F]
    ELSE IF F[bp.d].revs[bp.v].kind = "reg"
        THEN [ok |-> TRUE, err |-> "", F |-> Overwrite(F, bp.d, bp.v, RegFile("", "now"))]
    ELSE IF Resolves(F[bp.d].revs[bp.v].data) THEN [ok |-> TRUE, err |-> "", F |-> F]
    ELSE [ok |-> FALSE, err |-> "ENOENT", F |-> F]

\* utime(path, ubuf)
Utime(F, bp) ==
    IF ~LExists(F, bp) THEN [ok |-> FALSE, err |-> "ENOENT", F |-> F]
    ELSE IF bp.self THEN [ok |-> TRUE, err |-> "", F |-> F]
    ELSE IF F[bp.d].revs[bp.v].kind = "reg"
        THEN [ok |-> TRUE, err |-> "",
              F |-> Overwrite(F, bp.d, bp.v, RegFile(F[bp.d].revs[bp.v].data, "set"))]
    ELSE IF Resolves(F[bp.d].revs[bp.v].data) THEN [ok |-> TRUE, err |-> "", F |-> F]
    ELSE [ok |-> FALSE, err |-> "ENOENT", F |-> F]

\* Where rename(D(p), D(q)) puts the path x, for x at or below p.
Moved(x, p, q) == q \o SubSeq(x, Len(p) + 1, Len(x))

HasEntries(F, p) ==
    \/ F[p].dir \/ F[p].deleted \/ DOMAIN F[p].revs # {}
    \/ \E c \in Children(p) : F[c].exists

\* rename(2) of the backing directory D(p) to D(q)
RenameBacking(F, p, q) ==
    IF ~F[p].exists \/ ~ParentExists(F, q) THEN [ok |-> FALSE, err |-> "ENOENT", F |-> F]
    ELSE IF p = q THEN [ok |-> TRUE, err |-> "", F |-> F]
    ELSE IF IsPrefix(p, q) THEN [ok |-> FALSE, err |-> "EINVAL", F |-> F]
    ELSE IF F[q].exists /\ HasEntries(F, q)
        THEN [ok |-> FALSE, err |-> "ENOTEMPTY", F |-> F]
    ELSE [ok |-> TRUE, err |-> "",
          F |-> [x \in Paths |->
                   IF IsPrefix(q, x)
                       THEN LET o == p \o SubSeq(x, Len(q) + 1, Len(x))
                            IN  IF o \in Paths THEN F[o] ELSE NoNode
                   ELSE IF IsPrefix(p, x) THEN NoNode
                   ELSE F[x]]]

\* link(oldpath, newpath): newpath becomes one more name of oldpath's inode
\* (of the symlink itself when oldpath is one).
Link(F, src, dst) ==
    IF ~LExists(F, src) \/ ~F[dst.d].exists THEN [ok |-> FALSE, err |-> "ENOENT", F |-> F]
    ELSE IF src.self THEN [ok |-> FALSE, err |-> "EPERM", F |-> F]
    ELSE IF LExists(F, dst) THEN [ok |-> FALSE, err |-> "EEXIST", F |-> F]
    ELSE LET used == UNION {{F[x].ino[r] : r \in DOMAIN F[x].ino} : x \in Paths}
             g == IF F[src.d].ino[src.v] > 0 THEN F[src.d].ino[src.v]
                  ELSE Max(used \cup {0}) + 1
             G == [F EXCEPT ![src.d].ino[src.v] = g]
         IN  [ok |-> TRUE, err |-> "",
              F |-> [G EXCEPT
                       ![dst.d].revs = [r \in (DOMAIN @) \cup {dst.v} |->
                                          IF r = dst.v THEN F[src.d].revs[src.v] ELSE @[r]],
                       ![dst.d].ino = [r \in (DOMAIN @) \cup {dst.v} |->
                                         IF r = dst.v THEN g ELSE @[r]]]]

\* The rename keeps every moved node inside the modelled paths.
RenameInModel(F, p, q) ==
    \A x \in Paths : IsPrefix(p, x) /\ F[x].exists => Moved(x, p, q) \in Paths

(***************************************************************************)
(* undofs_fops.c: the handlers.  Each returns ret ("0" or "-" errno) and   *)
(* the store it leaves.  A handler that hands on the -1 of a helper        *)
(* returns "-EPERM", EPERM being errno 1.  undofs_latest_path fails when   *)
(* undofs_versiondir_path does, and only then.                             *)
(***************************************************************************)
Neg(err) == "-" \o err

undofs_getattr(F, p) ==
    IF undofs_versiondir_path(p) # 0 THEN "-ENAMETOOLONG" ELSE
    LET dir == DirPath(p)
        fpath == IF ~is_directory(F, dir) THEN undofs_latest_path(F, p) ELSE dir
    IN  IF is_deleted(F, fpath) THEN "-ENOENT"
        ELSE IF LExists(F, fpath) THEN "0"
        ELSE "-ENOENT"

\* mode is S_IFREG
undofs_mknod(F, p, cp) ==
    LET n == undofs_new_path(F, p, cp)
    IN  IF ~n.ok THEN [ret |-> Neg(n.err), F |-> n.F]
        ELSE LET o == CreatExcl(n.F, FilePath(p, n.v))
             IN  [ret |-> IF o.ok THEN "0" ELSE Neg(o.err), F |-> o.F]

\* undofs_mkdir that creates D(p) and no dir marker in it
undofs_mkdir_unmarked(F, p) ==
    IF undofs_versiondir_path(p) # 0 THEN [ret |-> "-ENAMETOOLONG", F |-> F] ELSE
    LET fpath == DirPath(p)
    IN  IF is_deleted(F, fpath)
            THEN [ret |-> "0", F |-> undelete(F, fpath).F]
            ELSE LET m == MkdirBacking(F, p)
                 IN  [ret |-> IF m.ok THEN "0" ELSE Neg(m.err), F |-> m.F]

undofs_mkdir(F, p) ==
    IF undofs_versiondir_path(p) # 0 THEN [ret |-> "-ENAMETOOLONG", F |-> F] ELSE
    LET fpath == DirPath(p)
    IN  IF is_deleted(F, fpath)
            THEN [ret |-> "0", F |-> undelete(F, fpath).F]
            ELSE LET m == MkdirBacking(F, p)
                 IN  IF ~m.ok THEN [ret |-> Neg(m.err), F |-> F]
                     \* touch(dmarker) succeeds in the new directory, and the
                     \* trailing rmdir(fpath) fails on it, as it is not empty
                     ELSE [ret |-> "0", F |-> touch(m.F, p, "dir").F]

undofs_unlink(F, p) ==
    IF undofs_versiondir_path(p) # 0 THEN [ret |-> "-ENAMETOOLONG", F |-> F] ELSE
    LET fpath == DirPath(p)
    IN  IF is_directory(F, fpath) THEN [ret |-> "-EISDIR", F |-> F]
        ELSE IF is_deleted(F, fpath) THEN [ret |-> "-ENOENT", F |-> F]
        ELSE LET t == touch(F, p, "deleted")
             IN  [ret |-> IF t.ok THEN "0" ELSE "-EIO", F |-> t.F]

\* an rmdir that also tombstones what lies below the directory
undofs_rmdir_children(F, p) ==
    IF undofs_versiondir_path(p) # 0 THEN [ret |-> "-EPERM", F |-> F] ELSE
    LET t == touch(F, p, "deleted")
    IN  [ret |-> IF t.ok THEN "0" ELSE "-EIO",
         F |-> [x \in Paths |->
                  IF x # p /\ IsPrefix(p, x) /\ t.F[x].exists
                      THEN [t.F[x] EXCEPT !.deleted = TRUE]
                      ELSE t.F[x]]]

undofs_rmdir(F, p) ==
    IF undofs_versiondir_path(p) # 0 THEN [ret |-> "-EPERM", F |-> F] ELSE
    LET t == touch(F, p, "deleted")
    IN  [ret |-> IF t.ok THEN "0" ELSE "-EIO", F |-> t.F]

undofs_symlink(F, target, link, cp) ==
    LET n == undofs_new_path(F, link, cp)
    IN  IF ~n.ok THEN [ret |-> Neg(n.err), F |-> n.F]
        ELSE LET o == Symlink(n.F, target, FilePath(link, n.v))
             IN  [ret |-> IF o.ok THEN "0" ELSE Neg(o.err), F |-> o.F]

\* cpn is the outcome of the cp run by undofs_new_path, cpr of the cp run by
\* the handler itself.  After a failed clone errno is the one left by the
\* access() probes of undofs_unlink.
undofs_rename(F, p, q, cpn, cpr) ==
    IF undofs_versiondir_path(p) # 0 \/ undofs_versiondir_path(q) # 0
        THEN [ret |-> "-EPERM", F |-> F] ELSE
    IF is_directory(F, DirPath(p))
        THEN LET r == RenameBacking(F, p, q)
             IN  [ret |-> IF r.ok THEN "0" ELSE Neg(r.err), F |-> r.F]
        ELSE LET fpath == undofs_latest_path(F, p)
                 n == undofs_new_path(F, q, cpn)
             IN  IF ~n.ok THEN [ret |-> Neg(n.err), F |-> n.F]
                 ELSE LET u == undofs_unlink(n.F, p)
                      IN  IF u.ret # "0" THEN u
                          ELSE LET c == clone_file(u.F, fpath, FilePath(q, n.v), cpr)
                               IN  IF c.ok THEN [ret |-> "0", F |-> c.F]
                                   ELSE [ret |-> "-ENOENT", F |-> undelete(c.F, fpath).F]

undofs_link(F, p, q, cp) ==
    IF undofs_versiondir_path(p) # 0 THEN [ret |-> "-EPERM", F |-> F] ELSE
    IF is_directory(F, DirPath(p)) THEN [ret |-> "-EISDIR", F |-> F]
    ELSE LET fpath == undofs_latest_path(F, p)
             n == undofs_new_path(F, q, cp)
         IN  IF ~n.ok THEN [ret |-> Neg(n.err), F |-> n.F]
             ELSE LET l == Link(n.F, fpath, FilePath(q, n.v))
                  IN  [ret |-> IF l.ok THEN "0" ELSE Neg(l.err), F |-> l.F]

\* chmod(fpath, mode) and chown(fpath, uid, gid) follow symlinks; the mode
\* and the owner of a file are not part of the modelled store.
undofs_chmod(F, p) ==
    IF undofs_versiondir_path(p) # 0 THEN "-EPERM" ELSE
    LET dir == DirPath(p)
        fpath == IF ~is_directory(F, dir) THEN undofs_latest_path(F, p) ELSE dir
    IN  IF Access(F, fpath) THEN "0" ELSE "-ENOENT"

undofs_chown(F, p) ==
    IF undofs_versiondir_path(p) # 0 THEN "-EPERM" ELSE
    LET dir == DirPath(p)
        fpath == IF ~is_directory(F, dir) THEN undofs_latest_path(F, p) ELSE dir
    IN  IF Access(F, fpath) THEN "0" ELSE "-ENOENT"

undofs_truncate(F, p) ==
    IF undofs_versiondir_path(p) # 0 THEN [ret |-> "-ENAMETOOLONG", F |-> F] ELSE
    LET t == Truncate(F, undofs_latest_path(F, p))
    IN  [ret |-> IF t.ok THEN "0" ELSE Neg(t.err), F |-> t.F]

undofs_utime(F, p) ==
    IF undofs_versiondir_path(p) # 0 THEN [ret |-> "-ENAMETOOLONG", F |-> F] ELSE
    LET t == Utime(F, undofs_latest_path(F, p))
    IN  [ret |-> IF t.ok THEN "0" ELSE Neg(t.err), F |-> t.F]

\* What the bytes of an uninitialised fpath may name: nothing, or a
\* revision file whose path an earlier call left on the stack.
NoJunk == [d |-> Root, self |-> FALSE, v |-> -1]
JunkPaths(F) == {NoJunk} \cup {FilePath(x, r) : x \in Paths, r \in 0..MaxRev}

\* The result of undofs_new_path is not looked at: on EISDIR fpath is the
\* empty string, on ENAMETOOLONG it has not been written at all (junk is
\* what it holds), otherwise it names the next revision, cloned or not.
undofs_open(F, p, write, cp, junk) ==
    IF write
        THEN LET n == undofs_new_path(F, p, cp)
                 fpath == IF n.err = "ENAMETOOLONG" THEN junk ELSE FilePath(p, n.v)
                 o == Open(n.F, fpath, n.err # "EISDIR", TRUE)
             IN  [ret |-> IF o.ok THEN "0" ELSE Neg(o.err), F |-> n.F,
                  fh |-> [h |-> o.h, d |-> fpath.d, v |-> fpath.v, w |-> TRUE]]
        ELSE IF undofs_versiondir_path(p) # 0
            THEN [ret |-> "-ENAMETOOLONG", F |-> F,
                  fh |-> [h |-> "none", d |-> Root, v |-> -1, w |-> FALSE]]
        ELSE LET fpath == undofs_latest_path(F, p)
                 o == Open(F, fpath, TRUE, FALSE)
             IN  [ret |-> IF o.ok THEN "0" ELSE Neg(o.err), F |-> F,
                  fh |-> [h |-> o.h, d |-> p, v |-> fpath.v, w |-> FALSE]]

undofs_create(F, p, cp) ==
    LET n == undofs_new_path(F, p, cp)
    IN  IF ~n.ok THEN [ret |-> Neg(n.err), F |-> n.F, fh |-> [h |-> "none", d |-> p, v |-> n.v, w |-> TRUE]]
        ELSE LET o == Creat(n.F, FilePath(p, n.v))
             IN  [ret |-> IF o.ok THEN "0" ELSE Neg(o.err), F |-> o.F,
                  fh |-> [h |-> o.h, d |-> p, v |-> n.v, w |-> TRUE]]

\* a write that goes to the latest revision of the path, not to the
\* descriptor's file
undofs_write_latest(F, fh, data) ==
    IF fh.h = "file"
        THEN Overwrite(F, fh.d, Max(DOMAIN F[fh.d].revs), RegFile(data, "now"))
        ELSE F

\* pwrite(fi->fh, buf, size, 0) of the whole content
undofs_write(F, fh, data) ==
    IF fh.h = "file"
        THEN Overwrite(F, fh.d, fh.v, RegFile(data, "now"))
        ELSE F

\* pread(fi->fh, buf, size, 0) of the whole content
undofs_read(F, fh) ==
    IF fh.h = "file" THEN F[fh.d].revs[fh.v].data
    ELSE IF fh.h = "host" THEN "host"
    ELSE ""

\* pread() on a descriptor of a directory fails with EISDIR.  The handler
\* assigns -errno to retval and then overwrites it with retstat, the -1 of
\* the failed call, which is -EPERM.
undofs_read_retval(fh) == IF fh.h = "dir" THEN "-EPERM" ELSE "0"

undofs_opendir(F, p) ==
    IF undofs_versiondir_path(p) # 0 THEN "-EPERM" ELSE
    IF ~is_directory(F, DirPath(p)) THEN "-ENOTDIR" ELSE "0"

\* undofs_clean_name(name, mangled) == 0: the entry ends in ".node" (the
\* components above it are version directories, which all do).
undofs_clean_name(e) == e.t = "node"

\* The names handed to filler() besides "." and "..".
undofs_readdir(F, p) ==
    IF ~F[p].exists THEN {}
    ELSE {e.name : e \in
            {e \in DirEntries(F, p) :
                /\ undofs_clean_name(e)
                /\ LET c == Append(p, e.name)
                   IN  IF is_directory(F, DirPath(c))
                           THEN ~is_deleted(F, DirPath(c))
                           ELSE Access(F, undofs_latest_path(F, c))}}

\* statvfs(fpath, statv) follows symlinks, as access() does.  The handler
\* returns retstat, the -1 of the failed call, which is -EPERM.
undofs_statfs(F, p) ==
    IF undofs_versiondir_path(p) # 0 THEN "-EPERM" ELSE
    LET dir == DirPath(p)
        fpath == IF ~is_directory(F, dir) THEN undofs_latest_path(F, p) ELSE dir
    IN  IF Access(F, fpath) THEN "0" ELSE "-EPERM"

\* access(fpath, mask), every permission being granted on what exists
undofs_access(F, p) ==
    IF undofs_versiondir_path(p) # 0 THEN "-EPERM" ELSE
    LET dir == DirPath(p)
        fpath == IF ~is_directory(F, dir) THEN undofs_latest_path(F, p) ELSE dir
    IN  IF Access(F, fpath) THEN "0" ELSE "-ENOENT"

(***************************************************************************)
(* Spec: the transport calls one handler at a time.                        *)
(***************************************************************************)
Threads == {1, 2}
CpOutcomes == {"exit", "signal"}
WriteCreating == {"create", "mknod", "open_w", "truncate"}
ReadOnly == {"getattr", "opendir", "readdir", "open_r", "read", "write", "release",
             "statfs", "access", "chmod", "chown"}

NoFh == [h |-> "none", d |-> Root, v |-> -1, w |-> FALSE]
\* a handler's locals: the call, version (undofs_latest_version), the
\* revision fpath names, the descriptor, the return value, the bytes read
NoLocals == [op |-> "none", version |-> -1, v |-> -1, valid |-> TRUE, h |-> "none",
             ret |-> "", data |-> ""]

\* The backing root is an existing, empty directory.
InitStore == [p \in Paths |-> IF p = Root THEN EmptyDir ELSE NoNode]

\* pre is the state the call found its path in, fd the descriptor it used
Call(op, p, q, ret) ==
    [op |-> op, p |-> p, q |-> q, ret |-> ret, cpn |-> "exit", cpr |-> "exit",
     data |-> "", pre |-> "absent", fd |-> 0]

\* The state of a user path, read off the markers and revisions of D(p).
StateOf(F, p) ==
    IF p \notin Paths \/ ~F[p].exists THEN "absent"
    ELSE IF F[p].dir THEN (IF F[p].deleted THEN "tombdir" ELSE "dir")
    ELSE IF DOMAIN F[p].revs = {} THEN (IF F[p].deleted THEN "tombempty" ELSE "empty")
    ELSE IF F[p].deleted THEN "tombfile" ELSE "file"

Init ==
    /\ fs = InitStore
    /\ fds = [fd \in 1..MaxFd |-> NoFh]
    /\ last = Call("init", Root, Root, "0")
    /\ wcount = [p \in Paths |-> IF p = Root THEN -1 ELSE 0]
    /\ nops = 0
    /\ pc = [t \in Threads |-> "idle"]
    /\ loc = [t \in Threads |-> NoLocals]
    /\ mpath = <<>>
    /\ mres = NoMangle

InBounds(F) == \A p \in Paths : \A r \in DOMAIN F[p].revs : r <= MaxRev

\* wcount after the call: a successful write-creating call on p counts; a
\* failed one, and any other call that may change D(p), ends the count.
Counted(op, p, q, ret) ==
    [x \in Paths |->
        IF op \in ReadOnly THEN wcount[x]
        ELSE IF op \in WriteCreating
            THEN IF x # p THEN wcount[x]
                 ELSE IF ret = "0" /\ wcount[x] >= 0 THEN wcount[x] + 1
                 ELSE -1
        ELSE IF IsPrefix(p, x) \/ IsPrefix(q, x) THEN -1
        ELSE wcount[x]]

Finish(F, c) ==
    /\ nops < MaxOps
    /\ InBounds(F)
    /\ fs' = F
    /\ last' = [c EXCEPT !.pre = StateOf(fs, c.p)]
    /\ wcount' = Counted(c.op, c.p, c.q, c.ret)
    /\ nops' = nops + 1
    /\ UNCHANGED <<pc, loc, mpath, mres>>

\* The lowest free descriptor, as open(2) hands them out.
FreeFd == {fd \in 1..MaxFd : fds[fd].h = "none"}
Bind(fh, ret) ==
    IF ret = "0" THEN [fds EXCEPT ![Max({-fd : fd \in FreeFd}) * (-1)] = fh] ELSE fds

Getattr(p) ==
    /\ Finish(fs, Call("getattr", p, p, undofs_getattr(fs, p)))
    /\ UNCHANGED fds

Mknod(p, cp) ==
    LET r == undofs_mknod(fs, p, cp)
    IN  /\ nops < MaxOps
        /\ cp = "exit" \/ r # undofs_mknod(fs, p, "exit")
        /\ Finish(r.F, [Call("mknod", p, p, r.ret) EXCEPT !.cpn = cp])
        /\ UNCHANGED fds

Mkdir(p) ==
    LET r == undofs_mkdir(fs, p)
    IN  /\ Finish(r.F, Call("mkdir", p, p, r.ret))
        /\ UNCHANGED fds

Unlink(p) ==
    LET r == undofs_unlink(fs, p)
    IN  /\ Finish(r.F, Call("unlink", p, p, r.ret))
        /\ UNCHANGED fds

Rmdir(p) ==
    LET r == undofs_rmdir(fs, p)
    IN  /\ Finish(r.F, Call("rmdir", p, p, r.ret))
        /\ UNCHANGED fds

SymlinkOp(target, p, cp) ==
    LET r == undofs_symlink(fs, target, p, cp)
    IN  /\ nops < MaxOps
        /\ cp = "exit" \/ r # undofs_symlink(fs, target, p, "exit")
        /\ Finish(r.F, [Call("symlink", p, p, r.ret) EXCEPT !.cpn = cp, !.data = target])
        /\ UNCHANGED fds

\* The kernel answers a rename of a path to itself and a rename of the mount
\* point without calling the handler.  A descriptor follows its file when
\* the directory above it is renamed.
Rename(p, q, cpn, cpr) ==
    LET r == undofs_rename(fs, p, q, cpn, cpr)
        dirmove == r.ret = "0" /\ is_directory(fs, DirPath(p)) /\ p # q
    IN  /\ nops < MaxOps
        /\ p # Root /\ q # Root /\ p # q
        /\ cpn = "exit" \/ r # undofs_rename(fs, p, q, "exit", cpr)
        /\ cpr = "exit" \/ r # undofs_rename(fs, p, q, cpn, "exit")
        /\ (p \in Paths /\ q \in Paths /\ is_directory(fs, DirPath(p)))
               => RenameInModel(fs, p, q)
        /\ Finish(r.F, [Call("rename", p, q, r.ret) EXCEPT !.cpn = cpn, !.cpr = cpr])
        /\ fds' = [fd \in 1..MaxFd |->
                     IF dirmove /\ fds[fd].h # "none" /\ IsPrefix(p, fds[fd].d)
                         THEN [fds[fd] EXCEPT !.d = Moved(fds[fd].d, p, q)]
                         ELSE fds[fd]]

LinkOp(p, q, cp) ==
    LET r == undofs_link(fs, p, q, cp)
    IN  /\ nops < MaxOps
        /\ p # Root /\ q # Root /\ p # q
        /\ cp = "exit" \/ r # undofs_link(fs, p, q, "exit")
        /\ Finish(r.F, [Call("link", p, q, r.ret) EXCEPT !.cpn = cp])
        /\ UNCHANGED fds

Chmod(p) ==
    /\ Finish(fs, Call("chmod", p, p, undofs_chmod(fs, p)))
    /\ UNCHANGED fds

Chown(p) ==
    /\ Finish(fs, Call("chown", p, p, undofs_chown(fs, p)))
    /\ UNCHANGED fds

TruncateOp(p) ==
    LET r == undofs_truncate(fs, p)
    IN  /\ Finish(r.F, Call("truncate", p, p, r.ret))
        /\ UNCHANGED fds

UtimeOp(p) ==
    LET r == undofs_utime(fs, p)
    IN  /\ Finish(r.F, Call("utime", p, p, r.ret))
        /\ UNCHANGED fds

OpenOp(p, write, cp, junk) ==
    LET r == undofs_open(fs, p, write, cp, junk)
    IN  /\ nops < MaxOps
        /\ FreeFd # {}
        /\ junk = NoJunk \/ (p = TooLong /\ write /\ LExists(fs, junk))
        /\ cp = "exit" \/ r # undofs_open(fs, p, write, "exit", junk)
        /\ Finish(r.F, [Call(IF write THEN "open_w" ELSE "open_r", p, p, r.ret)
                           EXCEPT !.cpn = cp])
        /\ fds' = Bind(r.fh, r.ret)

Create(p, cp) ==
    LET r == undofs_create(fs, p, cp)
    IN  /\ nops < MaxOps
        /\ FreeFd # {}
        /\ cp = "exit" \/ r # undofs_create(fs, p, "exit")
        /\ Finish(r.F, [Call("create", p, p, r.ret) EXCEPT !.cpn = cp])
        /\ fds' = Bind(r.fh, r.ret)

\* The kernel sends reads on descriptors opened for reading and writes on
\* descriptors opened for writing.
Read(fd) ==
    /\ fds[fd].h # "none" /\ ~fds[fd].w
    /\ Finish(fs, [Call("read", fds[fd].d, fds[fd].d, undofs_read_retval(fds[fd]))
                      EXCEPT !.data = undofs_read(fs, fds[fd]), !.fd = fd])
    /\ UNCHANGED fds

Write(fd, data) ==
    /\ fds[fd].h \in {"file", "host"} /\ fds[fd].w
    /\ Finish(undofs_write(fs, fds[fd], data),
              [Call("write", fds[fd].d, fds[fd].d, "0") EXCEPT !.data = data, !.fd = fd])
    /\ UNCHANGED fds

Release(fd) ==
    /\ fds[fd].h # "none"
    /\ Finish(fs, [Call("release", fds[fd].d, fds[fd].d, "0") EXCEPT !.fd = fd])
    /\ fds' = [fds EXCEPT ![fd] = NoFh]

Opendir(p) ==
    /\ Finish(fs, Call("opendir", p, p, undofs_opendir(fs, p)))
    /\ UNCHANGED fds

\* readdir is called on the stream a successful opendir returned
Readdir(p) ==
    /\ nops < MaxOps
    /\ undofs_opendir(fs, p) = "0"
    /\ Finish(fs, Call("readdir", p, p, "0"))
    /\ UNCHANGED fds

Statfs(p) ==
    /\ Finish(fs, Call("statfs", p, p, undofs_statfs(fs, p)))
    /\ UNCHANGED fds

AccessOp(p) ==
    /\ Finish(fs, Call("access", p, p, undofs_access(fs, p)))
    /\ UNCHANGED fds

Next ==
    \/ \E p \in UserPaths : Getattr(p)
    \/ \E p \in UserPaths, cp \in CpOutcomes : Mknod(p, cp)
    \/ \E p \in UserPaths : Mkdir(p)
    \/ \E p \in UserPaths : Unlink(p)
    \/ \E p \in UserPaths : Rmdir(p)
    \/ \E t \in Targets, p \in UserPaths, cp \in CpOutcomes : SymlinkOp(t, p, cp)
    \/ \E p, q \in UserPaths, cpn, cpr \in CpOutcomes : Rename(p, q, cpn, cpr)
    \/ \E p, q \in UserPaths, cp \in CpOutcomes : LinkOp(p, q, cp)
    \/ \E p \in UserPaths : Chmod(p)
    \/ \E p \in UserPaths : Chown(p)
    \/ \E p \in UserPaths : TruncateOp(p)
    \/ \E p \in UserPaths : UtimeOp(p)
    \/ \E p \in UserPaths, w \in BOOLEAN, cp \in CpOutcomes, junk \in JunkPaths(fs) :
           OpenOp(p, w, cp, junk)
    \/ \E p \in UserPaths, cp \in CpOutcomes : Create(p, cp)
    \/ \E fd \in 1..MaxFd : Read(fd)
    \/ \E fd \in 1..MaxFd, data \in Data : Write(fd, data)
    \/ \E fd \in 1..MaxFd : Release(fd)
    \/ \E p \in UserPaths : Opendir(p)
    \/ \E p \in Paths : Readdir(p)
    \/ \E p \in UserPaths : Statfs(p)
    \/ \E p \in UserPaths : AccessOp(p)

Spec == Init /\ [][Next]_vars

(***************************************************************************)
(* Logical states of a user path, read off the version directory.          *)
(***************************************************************************)
Absent(F, p) == ~F[p].exists
HasRevs(F, p) == F[p].exists /\ DOMAIN F[p].revs # {}
LiveFile(F, p) == HasRevs(F, p) /\ ~F[p].dir /\ ~F[p].deleted
TombFile(F, p) == HasRevs(F, p) /\ ~F[p].dir /\ F[p].deleted
LiveDir(F, p) == F[p].exists /\ F[p].dir /\ ~F[p].deleted
TombDir(F, p) == F[p].exists /\ F[p].dir /\ F[p].deleted
Latest(F, p) == Max(DOMAIN F[p].revs)
LatestFile(F, p) == F[p].revs[Latest(F, p)]
\* a live file whose visible revision is a regular file, not a symlink
LiveReg(F, p) == LiveFile(F, p) /\ LatestFile(F, p).kind = "reg"
\* every revision of fs is still there in fs', unchanged
RevsKept(p) == \A r \in DOMAIN fs[p].revs :
    r \in DOMAIN fs'[p].revs /\ fs'[p].revs[r] = fs[p].revs[r]
Files == Paths \ {Root}

(***************************************************************************)
(* C1 (as claimed): a path that starts absent and has seen nothing but N   *)
(* successful write-creating calls (create, mknod, write-open, truncate)   *)
(* holds exactly the revisions 0..N-1, no marker, and latest-revision is   *)
(* N-1.                                                                    *)
(***************************************************************************)
C1_RevisionsCountWrites ==
    \A p \in Files :
        wcount[p] >= 0 =>
            /\ (IF fs[p].exists THEN DOMAIN fs[p].revs ELSE {}) = 0..(wcount[p] - 1)
            /\ ~fs[p].deleted /\ ~fs[p].dir
            /\ undofs_latest_version(fs, p) = wcount[p] - 1

(***************************************************************************)
(* C2 (as claimed): truncate and utime on a live regular file with N       *)
(* revisions allocate revision N and leave revisions 0..N-1 as they were.  *)
(***************************************************************************)
C2_TruncateUtimeAllocate ==
    [][\A p \in Files :
        (last'.op \in {"truncate", "utime"} /\ last'.p = p /\ LiveFile(fs, p)) =>
            /\ DOMAIN fs'[p].revs = DOMAIN fs[p].revs \cup {Latest(fs, p) + 1}
            /\ RevsKept(p)]_vars

(***************************************************************************)
(* C3: unlink(P) on a live file succeeds; afterwards D(P)/deleted exists,  *)
(* every revision is kept unchanged, getattr(P) returns ENOENT and readdir *)
(* of the parent does not list P.                                          *)
(***************************************************************************)
C3_UnlinkTombstones ==
    [][\A p \in Files :
        (last'.op = "unlink" /\ last'.p = p /\ LiveFile(fs, p)) =>
            /\ last'.ret = "0"
            /\ fs'[p].deleted
            /\ fs'[p].revs = fs[p].revs
            /\ undofs_getattr(fs', p) = "-ENOENT"
            /\ Name(p) \notin undofs_readdir(fs', Parent(p))]_vars

C3_Witness ==
    /\ last.op = "unlink" /\ last.ret = "0"
    /\ TombFile(fs, last.p)
    /\ Cardinality(DOMAIN fs[last.p].revs) >= 2

(***************************************************************************)
(* C4: create(P) on a tombstoned file whose latest revision is N-1         *)
(* succeeds, removes the deleted marker and adds revision N as a new empty *)
(* file; the earlier revisions are kept unchanged.                         *)
(***************************************************************************)
C4_CreateAfterUnlink ==
    [][\A p \in Files :
        (last'.op = "create" /\ last'.p = p /\ TombFile(fs, p)) =>
            /\ last'.ret = "0"
            /\ ~fs'[p].deleted /\ ~fs'[p].dir
            /\ DOMAIN fs'[p].revs = DOMAIN fs[p].revs \cup {Latest(fs, p) + 1}
            /\ fs'[p].revs[Latest(fs, p) + 1] = RegFile("", "now")
            /\ RevsKept(p)]_vars

\* the reinstated path shows a new empty file that is no copy of revision 0
C4_Witness ==
    /\ last.op = "create" /\ last.ret = "0"
    /\ LiveFile(fs, last.p)
    /\ DOMAIN fs[last.p].revs = {0, 1}
    /\ fs[last.p].revs[1] = RegFile("", "now")
    /\ fs[last.p].revs[0] # fs[last.p].revs[1]

(***************************************************************************)
(* C5: rename(P, P') of a live regular file to another path that is absent *)
(* (below an existing parent), a tombstoned file or a live regular file    *)
(* succeeds; P is tombstoned with its revisions intact, P' is a live file  *)
(* whose new latest revision is a copy of P's latest, the earlier          *)
(* revisions of P' are unchanged, and readdir of the parent lists P' and   *)
(* not P.                                                                  *)
(***************************************************************************)
C5_RenameFile ==
    [][\A p, q \in Files :
        (/\ last'.op = "rename" /\ last'.p = p /\ last'.q = q
         /\ last'.cpn = "exit" /\ last'.cpr = "exit"
         /\ p # q /\ LiveReg(fs, p)
         /\ \/ Absent(fs, q) /\ ParentExists(fs, q)
            \/ TombFile(fs, q)
            \/ LiveReg(fs, q)) =>
            /\ last'.ret = "0"
            /\ TombFile(fs', p) /\ fs'[p].revs = fs[p].revs
            /\ LiveFile(fs', q)
            /\ DOMAIN fs'[q].revs =
                   (IF Absent(fs, q) THEN {0}
                    ELSE DOMAIN fs[q].revs \cup {Latest(fs, q) + 1})
            /\ LatestFile(fs', q) = LatestFile(fs, p)
            /\ Absent(fs, q) \/ RevsKept(q)
            /\ Name(q) \in undofs_readdir(fs', Parent(q))
            /\ Name(p) \notin undofs_readdir(fs', Parent(p))]_vars

C5_Witness ==
    /\ last.op = "rename" /\ last.ret = "0"
    /\ TombFile(fs, last.p)
    /\ LiveReg(fs, last.q)
    /\ LatestFile(fs, last.q).data = "x"
    /\ fs[last.p].revs[Latest(fs, last.p)] = LatestFile(fs, last.q)

(***************************************************************************)
(* C6 (as claimed): when the clone step of rename(P, P') fails after P was *)
(* tombstoned, the handler returns an error and P is again a live file     *)
(* showing the same latest revision.                                       *)
(***************************************************************************)
C6_RenameCompensates ==
    [][\A p \in Files :
        (/\ last'.op = "rename" /\ last'.p = p /\ last'.cpr = "signal"
         /\ LiveFile(fs, p)) =>
            /\ last'.ret # "0"
            /\ LiveFile(fs', p)
            /\ fs'[p].revs = fs[p].revs
            /\ undofs_getattr(fs', p) = "0"]_vars

(***************************************************************************)
(* C7 (as claimed): readdir of a live directory lists exactly its live     *)
(* children: live files (regular or symlink) and live sub-directories.     *)
(***************************************************************************)
C7_ReaddirListsLive ==
    \A p \in Paths :
        LiveDir(fs, p) =>
            undofs_readdir(fs, p) =
                {Name(c) : c \in {c \in Children(p) : LiveFile(fs, c) \/ LiveDir(fs, c)}}

(***************************************************************************)
(* C10 (as claimed): create, mknod, symlink and write-open on a tombstoned *)
(* file with latest revision N-1 succeed, remove the deleted marker and    *)
(* add exactly the new revision N.                                         *)
(***************************************************************************)
C10_ReinstateTombstoned ==
    [][\A p \in Files :
        (/\ last'.op \in {"create", "mknod", "symlink", "open_w"} /\ last'.p = p
         /\ TombFile(fs, p)) =>
            /\ last'.ret = "0"
            /\ LiveFile(fs', p)
            /\ DOMAIN fs'[p].revs = DOMAIN fs[p].revs \cup {Latest(fs, p) + 1}
            /\ RevsKept(p)]_vars

(***************************************************************************)
(* SpecConc: two transport threads call handlers on the same path P,       *)
(* which starts absent, live or tombstoned.  Each thread runs one          *)
(* of create(P), open(P, O_WRONLY) + write "y" + release, and              *)
(* open(P, O_RDONLY) + read + release; a step is one system call of the    *)
(* handler (the cp child of clone_file takes two: it opens the             *)
(* destination, then copies data and attributes into it).                  *)
(***************************************************************************)
P == <<"a">>
WriterData == "y"
ConcOps == {"create", "open_w", "open_r", "mkdir", "unlink"}

\* the stores the threads start from, each with the call that produced it:
\* P absent; P live after create(P), write "x", release; P tombstoned after
\* a further unlink(P)
LiveStore ==
    LET c == undofs_create(InitStore, P, "exit")
    IN  undofs_write(c.F, c.fh, "x")
ConcStores ==
    { [F |-> InitStore, op |-> "init"],
      [F |-> LiveStore, op |-> "write"],
      [F |-> undofs_unlink(LiveStore, P).F, op |-> "unlink"] }

InitConc ==
    /\ \E s \in ConcStores :
          /\ fs = s.F
          /\ last = Call(s.op, P, P, "0")
    /\ fds = [fd \in 1..MaxFd |-> NoFh]
    /\ wcount = [p \in Paths |-> -1]
    /\ nops = 0
    /\ pc = [t \in Threads |-> "idle"]
    /\ loc = [t \in Threads |-> NoLocals]
    /\ mpath = <<>>
    /\ mres = NoMangle

Goto(t, label, l) ==
    /\ pc' = [pc EXCEPT ![t] = label]
    /\ loc' = [loc EXCEPT ![t] = l]
    /\ UNCHANGED <<fds, last, wcount, nops, mpath, mres>>

Begin(t, op) ==
    /\ pc[t] = "idle"
    /\ Goto(t, IF op = "mkdir" THEN "mk_isdeleted"
               ELSE IF op = "unlink" THEN "ul_isdir"
               ELSE "version",
            [NoLocals EXCEPT !.op = op])
    /\ UNCHANGED fs

\* long version = undofs_latest_version(path)
ScanVersion(t) ==
    /\ pc[t] = "version"
    /\ Goto(t, IF loc[t].op = "open_r" THEN "lp_isdeleted" ELSE "np_isdir",
            [loc[t] EXCEPT !.version = undofs_latest_version(fs, P)])
    /\ UNCHANGED fs

\* undofs_latest_path: if(is_deleted(directory_path)) version++
LatestIsDeleted(t) ==
    /\ pc[t] = "lp_isdeleted"
    /\ Goto(t, "lp_isdir",
            [loc[t] EXCEPT !.v = IF is_deleted(fs, DirPath(P))
                                     THEN loc[t].version + 1 ELSE loc[t].version])
    /\ UNCHANGED fs

\* undofs_latest_path: if(is_directory(directory_path)) fpath is the directory
LatestIsDirectory(t) ==
    /\ pc[t] = "lp_isdir"
    /\ Goto(t, "syscall",
            [loc[t] EXCEPT !.h = IF is_directory(fs, DirPath(P)) THEN "dir" ELSE "none"])
    /\ UNCHANGED fs

\* undofs_new_path: if(is_directory(directory_path)) fail with EISDIR
NewIsDirectory(t) ==
    /\ pc[t] = "np_isdir"
    /\ IF is_directory(fs, DirPath(P))
           THEN IF loc[t].op = "create"
                    THEN Goto(t, "done", [loc[t] EXCEPT !.ret = "-EISDIR"])
                    ELSE Goto(t, "syscall", [loc[t] EXCEPT !.valid = FALSE])
           ELSE Goto(t, IF loc[t].version >= 0 THEN "np_isdeleted" ELSE "np_mkdir",
                     [loc[t] EXCEPT !.v = loc[t].version + 1])
    /\ UNCHANGED fs

\* undofs_new_path: int deleted = is_deleted(directory_path)
NewIsDeleted(t) ==
    /\ pc[t] = "np_isdeleted"
    /\ Goto(t, IF is_deleted(fs, DirPath(P)) THEN "np_undelete" ELSE "cp_open", loc[t])
    /\ UNCHANGED fs

\* undofs_new_path: undelete(directory_path)
NewUndelete(t) ==
    /\ pc[t] = "np_undelete"
    /\ fs' = undelete(fs, DirPath(P)).F
    /\ Goto(t, "syscall", loc[t])

\* undofs_new_path: mkdir(directory_path, S_IRWXU)
NewMkdir(t) ==
    /\ pc[t] = "np_mkdir"
    /\ LET m == MkdirBacking(fs, P)
       IN  /\ fs' = m.F
           /\ IF m.ok \/ loc[t].op # "create"
                  THEN Goto(t, "syscall", loc[t])
                  ELSE Goto(t, "done", [loc[t] EXCEPT !.ret = Neg(m.err)])

\* clone_file, first half: cp opens the destination, creating it empty or
\* truncating it (nothing happens when the source is missing or a symlink)
CpOpen(t) ==
    /\ pc[t] = "cp_open"
    /\ LET src == FilePath(P, loc[t].version)
           dst == FilePath(P, loc[t].v)
       IN  fs' = IF LExists(fs, src) /\ fs[P].revs[src.v].kind = "reg"
                     /\ CpA(fs, src, dst) # fs
                     THEN (IF LExists(fs, dst)
                               THEN Overwrite(fs, P, dst.v, RegFile("", "now"))
                               ELSE PutFile(fs, P, dst.v, RegFile("", "now")))
                     ELSE fs
    /\ Goto(t, "cp_copy", loc[t])

\* clone_file, second half: cp copies data and attributes and exits
CpCopy(t) ==
    /\ pc[t] = "cp_copy"
    /\ fs' = clone_file(fs, FilePath(P, loc[t].version), FilePath(P, loc[t].v), "exit").F
    /\ Goto(t, "syscall", loc[t])

\* creat(fpath, mode) in undofs_create, open(fpath, fi->flags) in undofs_open
Syscall(t) ==
    /\ pc[t] = "syscall"
    /\ LET fpath == IF loc[t].h = "dir" THEN DirPath(P) ELSE FilePath(P, loc[t].v)
           c == Creat(fs, fpath)
           o == IF loc[t].op = "create"
                    THEN [ok |-> c.ok, err |-> c.err, h |-> c.h]
                    ELSE Open(fs, fpath, loc[t].valid, loc[t].op = "open_w")
       IN  /\ fs' = (IF loc[t].op = "create" THEN c.F ELSE fs)
           /\ Goto(t, IF ~o.ok THEN "done"
                      ELSE IF loc[t].op = "open_r" THEN "read"
                      ELSE IF loc[t].op = "open_w" THEN "write"
                      ELSE "release",
                   [loc[t] EXCEPT !.h = o.h, !.ret = IF o.ok THEN "0" ELSE Neg(o.err)])

\* undofs_write through the descriptor
WriteStep(t) ==
    /\ pc[t] = "write"
    /\ fs' = undofs_write(fs, [h |-> loc[t].h, d |-> P, v |-> loc[t].v, w |-> TRUE], WriterData)
    /\ Goto(t, "release", loc[t])

\* undofs_read through the descriptor
ReadStep(t) ==
    /\ pc[t] = "read"
    /\ Goto(t, "release",
            [loc[t] EXCEPT !.data = undofs_read(fs, [h |-> loc[t].h, d |-> P, v |-> loc[t].v,
                                                  w |-> FALSE])])
    /\ UNCHANGED fs

\* undofs_release
ReleaseStep(t) ==
    /\ pc[t] = "release"
    /\ Goto(t, "done", loc[t])
    /\ UNCHANGED fs

\* undofs_mkdir: if(is_deleted(fpath))
MkdirIsDeleted(t) ==
    /\ pc[t] = "mk_isdeleted"
    /\ Goto(t, IF is_deleted(fs, DirPath(P)) THEN "mk_undelete" ELSE "mk_mkdir", loc[t])
    /\ UNCHANGED fs

\* undofs_mkdir: undelete(fpath); errno is ENOENT when the marker is gone
MkdirUndelete(t) ==
    /\ pc[t] = "mk_undelete"
    /\ LET u == undelete(fs, DirPath(P))
       IN  /\ fs' = u.F
           /\ Goto(t, "done", [loc[t] EXCEPT !.ret = IF u.ok THEN "0" ELSE "-ENOENT"])

\* undofs_mkdir: mkdir(fpath, mode)
MkdirMkdir(t) ==
    /\ pc[t] = "mk_mkdir"
    /\ LET m == MkdirBacking(fs, P)
       IN  /\ fs' = m.F
           /\ IF m.ok
                  THEN Goto(t, "mk_touch", [loc[t] EXCEPT !.ret = "0"])
                  ELSE Goto(t, "done", [loc[t] EXCEPT !.ret = Neg(m.err)])

\* undofs_mkdir: touch(dmarker); errno is EEXIST when the marker is there
MkdirTouch(t) ==
    /\ pc[t] = "mk_touch"
    /\ LET d == touch(fs, P, "dir")
       IN  /\ fs' = d.F
           /\ Goto(t, "mk_rmdir", [loc[t] EXCEPT !.ret = IF d.ok THEN "0" ELSE "-EEXIST"])

\* undofs_mkdir: rmdir(fpath), which removes D(P) when it holds nothing
MkdirRmdir(t) ==
    /\ pc[t] = "mk_rmdir"
    /\ fs' = IF fs[P].exists /\ DirEntries(fs, P) = {[t |-> "dot", n |-> 0, name |-> ""]}
                 THEN [fs EXCEPT ![P] = NoNode]
                 ELSE fs
    /\ Goto(t, "done", loc[t])

\* undofs_unlink: if(is_directory(fpath)) return -EISDIR
UnlinkIsDirectory(t) ==
    /\ pc[t] = "ul_isdir"
    /\ IF is_directory(fs, DirPath(P))
           THEN Goto(t, "done", [loc[t] EXCEPT !.ret = "-EISDIR"])
           ELSE Goto(t, "ul_isdeleted", loc[t])
    /\ UNCHANGED fs

\* undofs_unlink: if(is_deleted(fpath)) return -ENOENT
UnlinkIsDeleted(t) ==
    /\ pc[t] = "ul_isdeleted"
    /\ IF is_deleted(fs, DirPath(P))
           THEN Goto(t, "done", [loc[t] EXCEPT !.ret = "-ENOENT"])
           ELSE Goto(t, "ul_touch", loc[t])
    /\ UNCHANGED fs

\* undofs_unlink: touch(fpath) of the `deleted` marker, -EIO when it fails
UnlinkTouch(t) ==
    /\ pc[t] = "ul_touch"
    /\ LET d == touch(fs, P, "deleted")
       IN  /\ fs' = d.F
           /\ Goto(t, "done", [loc[t] EXCEPT !.ret = IF d.ok THEN "0" ELSE "-EIO"])

NextConc ==
    \E t \in Threads :
        \/ \E op \in ConcOps : Begin(t, op)
        \/ ScanVersion(t)
        \/ LatestIsDeleted(t)
        \/ LatestIsDirectory(t)
        \/ NewIsDirectory(t)
        \/ NewIsDeleted(t)
        \/ NewUndelete(t)
        \/ NewMkdir(t)
        \/ CpOpen(t)
        \/ CpCopy(t)
        \/ Syscall(t)
        \/ WriteStep(t)
        \/ ReadStep(t)
        \/ ReleaseStep(t)
        \/ MkdirIsDeleted(t)
        \/ MkdirUndelete(t)
        \/ MkdirMkdir(t)
        \/ MkdirTouch(t)
        \/ MkdirRmdir(t)
        \/ UnlinkIsDirectory(t)
        \/ UnlinkIsDeleted(t)
        \/ UnlinkTouch(t)

SpecConc == InitConc /\ [][NextConc]_vars

Returned(t) == loc[t].ret # ""
Writers == {t \in Threads : loc[t].op \in {"create", "open_w"}}

\* C8: when a create or write-open of the live path P runs on each thread,
\* the two calls never both succeed bound to the same revision file, and if
\* both computed the same latest revision exactly one fails with EEXIST.
C8_WritersNeverShare ==
    (last.op = "write" /\ Writers = Threads /\ \A t \in Threads : Returned(t))
        => /\ ~(/\ loc[1].ret = "0" /\ loc[2].ret = "0"
                /\ loc[1].v = loc[2].v)
           /\ loc[1].version = loc[2].version
                  => Cardinality({t \in Threads : loc[t].ret = "-EEXIST"}) = 1

\* C9: a read-open of the live path P (revision 0 holds "x") that runs while
\* the other thread write-opens P and writes "y" reads the whole of revision
\* 0 or the whole of revision 1, never an empty or partly cloned file.
C9_ReaderSeesWholeRevision ==
    \A t \in Threads :
        (/\ last.op = "write"
         /\ loc[t].op = "open_r" /\ loc[t].ret = "0"
         /\ pc[t] \in {"release", "done"}
         /\ \E w \in Threads : loc[w].op = "open_w")
            => loc[t].data \in {"x", WriterData}

(***************************************************************************)
(* C11 (as claimed): create, mknod, symlink and write-open on a live       *)
(* regular file with N revisions succeed (the cp child running to its      *)
(* exit) and leave a live file with exactly the revisions 0..N, the first  *)
(* N unchanged.                                                            *)
(***************************************************************************)
C11_WriteCreatingOnLive ==
    [][\A p \in Files :
        (/\ last'.op \in {"create", "mknod", "symlink", "open_w"} /\ last'.p = p
         /\ last'.cpn = "exit"
         /\ LiveReg(fs, p)) =>
            /\ last'.ret = "0"
            /\ LiveFile(fs', p)
            /\ DOMAIN fs'[p].revs = DOMAIN fs[p].revs \cup {Latest(fs, p) + 1}
            /\ RevsKept(p)]_vars

\* D(p) and everything below it is the same before and after the step
SubtreeKept(p) == \A x \in Paths : IsPrefix(p, x) => fs'[x] = fs[x]

(***************************************************************************)
(* C12 (as claimed): on a live directory P, create, mknod, symlink (P the  *)
(* link path), write-open and unlink return EISDIR and mkdir returns       *)
(* EEXIST; D(P) and its children are left unchanged.                       *)
(***************************************************************************)
C12_LiveDirectoryRefuses ==
    [][\A p \in Paths :
        (last'.p = p /\ LiveDir(fs, p)) =>
            /\ last'.op \in {"create", "mknod", "symlink", "open_w", "unlink"}
                   => last'.ret = "-EISDIR" /\ SubtreeKept(p)
            /\ last'.op = "mkdir"
                   => last'.ret = "-EEXIST" /\ SubtreeKept(p)]_vars

(***************************************************************************)
(* C13 (as claimed): unlink(P) and rmdir(P) on a path that is absent or    *)
(* already tombstoned (file or directory) return ENOENT and leave the      *)
(* backing store unchanged.                                                *)
(***************************************************************************)
C13_RemoveNotLive ==
    [][\A p \in Files :
        (/\ last'.op \in {"unlink", "rmdir"} /\ last'.p = p
         /\ Absent(fs, p) \/ TombFile(fs, p) \/ TombDir(fs, p)) =>
            /\ last'.ret = "-ENOENT"
            /\ fs' = fs]_vars

(***************************************************************************)
(* C14 (as claimed): while a directory P is tombstoned, getattr, access,   *)
(* statfs and opendir on P return ENOENT.                                  *)
(***************************************************************************)
C14_TombstonedDirReads ==
    [][\A p \in Files :
        (/\ last'.op \in {"getattr", "access", "statfs", "opendir"} /\ last'.p = p
         /\ TombDir(fs, p)) =>
            last'.ret = "-ENOENT"]_vars

\* everything strictly below D(p) is the same before and after the step
ChildrenKept(p) == \A x \in Paths : (IsPrefix(p, x) /\ x # p) => fs'[x] = fs[x]

(***************************************************************************)
(* C15: for P below the root or a live directory, mkdir(P) on an absent P  *)
(* succeeds and makes P a live directory; rmdir(P) on that live directory  *)
(* succeeds and tombstones it, keeping its children; mkdir(P) on the       *)
(* tombstoned directory succeeds and leaves D(P) with dir present, deleted *)
(* absent and the children it had.                                         *)
(***************************************************************************)
C15_MkdirRmdirMkdir ==
    [][\A p \in Files :
        (last'.p = p /\ (Parent(p) = Root \/ LiveDir(fs, Parent(p)))) =>
            /\ (last'.op = "mkdir" /\ Absent(fs, p))
                   => last'.ret = "0" /\ LiveDir(fs', p)
            /\ (last'.op = "rmdir" /\ LiveDir(fs, p))
                   => last'.ret = "0" /\ TombDir(fs', p) /\ ChildrenKept(p)
            /\ (last'.op = "mkdir" /\ TombDir(fs, p))
                   => last'.ret = "0" /\ LiveDir(fs', p) /\ ChildrenKept(p)]_vars

\* the second mkdir has found the tombstone of the rmdir and resurrected P
C15_Witness ==
    /\ last.op = "mkdir" /\ last.pre = "tombdir" /\ last.ret = "0"
    /\ LiveDir(fs, last.p)

(***************************************************************************)
(* SpecStored: the handlers of Spec, called one at a time on a backing     *)
(* root that already stores the file P with content "x" (the store after   *)
(* create(P), write "x", release).                                         *)
(***************************************************************************)
InitStored ==
    /\ fs = LiveStore
    /\ fds = [fd \in 1..MaxFd |-> NoFh]
    /\ last = Call("release", P, P, "0")
    /\ wcount = [p \in Paths |-> -1]
    /\ nops = 0
    /\ pc = [t \in Threads |-> "idle"]
    /\ loc = [t \in Threads |-> NoLocals]
    /\ mpath = <<>>
    /\ mres = NoMangle

SpecStored == InitStored /\ [][Next]_vars

\* the visible revisions of the live files p and q are names of one inode
Linked(F, p, q) ==
    /\ LiveFile(F, p) /\ LiveFile(F, q)
    /\ F[p].ino[Latest(F, p)] > 0
    /\ F[p].ino[Latest(F, p)] = F[q].ino[Latest(F, q)]

(***************************************************************************)
(* C16 (as claimed): once link(P, P') has made the visible revisions of P  *)
(* and P' names of one inode, create, truncate and write-open on one of    *)
(* the paths allocate a new revision for it, and neither they nor a write  *)
(* through a handle opened after the link change the file visible through  *)
(* the other path.                                                         *)
(***************************************************************************)
C16_LinkIsSnapshot ==
    [][\A p, q \in Files :
        (p # q /\ Linked(fs, p, q) /\ last'.p = p /\ last'.cpn = "exit") =>
            /\ last'.op \in {"create", "truncate", "open_w"}
                   => /\ last'.ret = "0"
                      /\ Latest(fs', p) = Latest(fs, p) + 1
                      /\ LatestFile(fs', q) = LatestFile(fs, q)
            /\ (/\ last'.op = "write"
                /\ \A fd \in 1..MaxFd :
                       (fds[fd].h = "file" /\ fds[fd].d = p) => fds[fd].v > Latest(fs, p))
                   => LatestFile(fs', q) = LatestFile(fs, q)]_vars

(***************************************************************************)
(* C17 (as claimed): rename(P, P') of a live directory P succeeds whether  *)
(* P' is absent or has a history in D(P') (P' is not below P and its       *)
(* parent exists); afterwards P is absent and P' is a live directory with  *)
(* the children of P and none of its earlier revisions or markers.         *)
(***************************************************************************)
C17_RenameDirectory ==
    [][\A p, q \in Files :
        (/\ last'.op = "rename" /\ last'.p = p /\ last'.q = q
         /\ LiveDir(fs, p)
         /\ ~IsPrefix(p, q) /\ ParentExists(fs, q)) =>
            /\ last'.ret = "0"
            /\ Absent(fs', p)
            /\ LiveDir(fs', q) /\ DOMAIN fs'[q].revs = {}
            /\ \A x \in Paths :
                   (IsPrefix(p, x) /\ x # p /\ Moved(x, p, q) \in Paths)
                       => fs'[Moved(x, p, q)] = fs[x]]_vars

\* fd is a descriptor opened for writing on revision k of p
WriteHandle(fd, p, k) == fds[fd] = [h |-> "file", d |-> p, v |-> k, w |-> TRUE]

\* revision r of p is another name of the inode of revision k
SameInode(F, p, r, k) == F[p].ino[k] > 0 /\ F[p].ino[r] = F[p].ino[k]

(***************************************************************************)
(* C18: while a descriptor h1 opened by create or write-open is bound to   *)
(* the latest revision k of the live file P, a write-open of P that        *)
(* succeeds binds a second descriptor h2 to revision k+1, whose content is *)
(* that of revision k at that moment, and leaves h1 as it is.  A write     *)
(* through a descriptor bound to revision k stores its data in revision k  *)
(* and changes no other revision of P (names that link() has given the     *)
(* same inode aside), so writes through h1 and h2 stay apart.              *)
(***************************************************************************)
C18_HandlesKeepRevisions ==
    [][\A p \in Files, fd \in 1..MaxFd, k \in 0..MaxRev :
        WriteHandle(fd, p, k) =>
            /\ (/\ last'.op = "open_w" /\ last'.p = p /\ last'.ret = "0"
                /\ LiveFile(fs, p) /\ Latest(fs, p) = k)
                   => /\ fds'[fd] = fds[fd]
                      /\ \E fd2 \in FreeFd :
                             fds'[fd2] = [h |-> "file", d |-> p, v |-> k + 1, w |-> TRUE]
                      /\ fs'[p].revs[k + 1] = fs[p].revs[k]
                      /\ fs'[p].revs[k] = fs[p].revs[k]
            /\ (last'.op = "write" /\ last'.fd = fd)
                   => /\ DOMAIN fs'[p].revs = DOMAIN fs[p].revs
                      /\ fs'[p].revs[k].data = last'.data
                      /\ \A r \in DOMAIN fs[p].revs \ {k} :
                             ~SameInode(fs, p, r, k) => fs'[p].revs[r] = fs[p].revs[r]]_vars

\* h1 on revision k and h2 on revision k+1 are open, and a write through h1
\* has put "x" into revision k while revision k+1 is still empty
C18_Witness ==
    \E p \in Files, fd, fd2 \in 1..MaxFd, k \in 0..MaxRev :
        /\ WriteHandle(fd, p, k) /\ WriteHandle(fd2, p, k + 1)
        /\ last.op = "write" /\ last.fd = fd
        /\ fs[p].revs[k].data = "x"
        /\ fs[p].revs[k + 1].data = ""

PathTaking ==
    {"getattr", "mkdir", "unlink", "rmdir", "rename", "link", "chmod", "chown", "statfs",
     "opendir", "access", "open_r", "open_w", "create", "mknod", "symlink", "truncate"}

(***************************************************************************)
(* C19 (as claimed): a path-taking handler called with a user path whose   *)
(* mangled form does not fit in PATH_MAX returns -ENAMETOOLONG and leaves  *)
(* the backing store as it was.                                            *)
(***************************************************************************)
C19_NameTooLong ==
    [][(/\ last'.op \in PathTaking
        /\ last'.p = TooLong \/ last'.q = TooLong) =>
            /\ last'.ret = "-ENAMETOOLONG"
            /\ fs' = fs]_vars


(***************************************************************************)
(* C20 (as claimed): in every state reachable from an empty backing root   *)
(* the user path "/" is a live directory: is-directory holds for the       *)
(* backing root, getattr("/") and opendir("/") succeed, and the backing    *)
(* root holds no `deleted` marker.                                         *)
(***************************************************************************)
C20_RootIsLiveDirectory ==
    /\ is_directory(fs, DirPath(Root))
    /\ undofs_getattr(fs, Root) = "0"
    /\ undofs_opendir(fs, Root) = "0"
    /\ ~is_deleted(fs, DirPath(Root))


(***************************************************************************)
(* C21 (as claimed): when the backing-store call of a handler fails with   *)
(* errno e the handler returns -e.  Stated for the calls whose failure the *)
(* store determines: statvfs() of a path that does not exist (ENOENT),     *)
(* pread() on a descriptor of a directory (EISDIR), and the creation of    *)
(* the `deleted` marker by rmdir in a version directory that does not      *)
(* exist (ENOENT).                                                         *)
(***************************************************************************)
C21_ErrnoNegated ==
    [][/\ \A p \in Paths :
            /\ (/\ last'.op = "statfs" /\ last'.p = p
                /\ ~Access(fs, IF is_directory(fs, DirPath(p))
                                   THEN DirPath(p) ELSE undofs_latest_path(fs, p)))
                    => last'.ret = "-ENOENT"
            /\ (last'.op = "rmdir" /\ last'.p = p /\ ~fs[p].exists)
                    => last'.ret = "-ENOENT"
       /\ \A fd \in 1..MaxFd :
            (last'.op = "read" /\ last'.fd = fd /\ fds[fd].h = "dir")
                    => last'.ret = "-EISDIR"]_vars


\* the store F with the version directory of p taken away
WithoutDir(F, p) == [F EXCEPT ![p] = NoNode]

\* the handler results r (on the store with D(p) empty) and a (on the store
\* with D(p) absent) agree: same return value, same revisions and markers
SameResult(r, a, p) ==
    /\ r.ret = a.ret
    /\ r.F[p].revs = a.F[p].revs
    /\ r.F[p].dir = a.F[p].dir
    /\ r.F[p].deleted = a.F[p].deleted

(***************************************************************************)
(* C22 (as claimed): a path whose version directory exists but is empty    *)
(* behaves as an absent path: every handler returns what it returns from   *)
(* the absent state and leaves the same revisions and markers.             *)
(***************************************************************************)
C22_EmptyBehavesAsAbsent ==
    \A p \in Files :
        StateOf(fs, p) = "empty" =>
            LET A == WithoutDir(fs, p)
            IN  /\ undofs_getattr(fs, p) = undofs_getattr(A, p)
                /\ undofs_opendir(fs, p) = undofs_opendir(A, p)
                /\ undofs_access(fs, p) = undofs_access(A, p)
                /\ SameResult(undofs_create(fs, p, "exit"), undofs_create(A, p, "exit"), p)
                /\ SameResult(undofs_mknod(fs, p, "exit"), undofs_mknod(A, p, "exit"), p)
                /\ SameResult(undofs_symlink(fs, "hostfile", p, "exit"),
                              undofs_symlink(A, "hostfile", p, "exit"), p)
                /\ SameResult(undofs_open(fs, p, TRUE, "exit", NoJunk),
                              undofs_open(A, p, TRUE, "exit", NoJunk), p)
                /\ SameResult(undofs_truncate(fs, p), undofs_truncate(A, p), p)
                /\ SameResult(undofs_mkdir(fs, p), undofs_mkdir(A, p), p)
                /\ SameResult(undofs_unlink(fs, p), undofs_unlink(A, p), p)
                /\ SameResult(undofs_rmdir(fs, p), undofs_rmdir(A, p), p)


(***************************************************************************)
(* SpecMangle: undofs_versiondir_path and undofs_clean_name on strings.    *)
(* A string is the sequence of its characters.  The buffers are PATH_MAX   *)
(* characters long; the backing root R is "/r".                            *)
(***************************************************************************)
PATH_MAX == 32
rootdir == <<"/", "r">>
DotNode == <<".", "n", "o", "d", "e">>

\* while(*path_pos == '/') path_pos++: the first position from pos on that
\* holds no '/'
RECURSIVE SkipSlashes(_, _)
SkipSlashes(path, pos) ==
    IF pos <= Len(path) /\ path[pos] = "/" THEN SkipSlashes(path, pos + 1) ELSE pos

\* The copying loop of undofs_versiondir_path: out is what fpath holds so
\* far, pos the position of path_pos.
RECURSIVE MangleLoop(_, _, _)
MangleLoop(path, pos, out) ==
    IF Len(out) + 12 < PATH_MAX /\ pos <= Len(path)
        THEN IF path[pos] = "/"
                 THEN LET q == SkipSlashes(path, pos + 1) - 1
                      IN  MangleLoop(path, q + 1, out \o DotNode \o <<path[q]>>)
                 ELSE MangleLoop(path, pos + 1, Append(out, path[pos]))
        ELSE [pos |-> pos, out |-> out]

\* undofs_versiondir_path without the ".node" after the last component
undofs_versiondir_path_bare(path) ==
    IF path = <<"/">>
        THEN [ret |-> 0, fpath |-> rootdir]
        ELSE LET first == SkipSlashes(path, 1)
                 l == MangleLoop(path, first, rootdir \o SubSeq(path, 1, first - 1))
             IN  [ret |-> IF l.pos <= Len(path) THEN -1 ELSE 0, fpath |-> l.out]

\* undofs_versiondir_path(fpath, path) on strings: its return value and
\* what it leaves in fpath.
undofs_versiondir_path_string(path) ==
    IF path = <<"/">>
        THEN [ret |-> 0, fpath |-> rootdir]
        ELSE LET first == SkipSlashes(path, 1)
                 i == Len(rootdir) + (first - 1)
                 l == MangleLoop(path, first, rootdir \o SubSeq(path, 1, first - 1))
             IN  IF l.pos <= Len(path)
                     THEN [ret |-> -1, fpath |-> l.out]
                     ELSE [ret |-> 0,
                           fpath |-> IF Len(l.out) > i THEN l.out \o DotNode ELSE l.out]

\* the test for ".node" without the test of what follows it
AtDotNode_anywhere(m, pos) ==
    /\ pos + 4 <= Len(m)
    /\ SubSeq(m, pos, pos + 4) = DotNode

\* strncmp(mangled_pos, ".node", 5) == 0 && (mangled_pos[5] == '/' ||
\* mangled_pos[5] == '\0')
AtDotNode(m, pos) ==
    /\ pos + 4 <= Len(m)
    /\ SubSeq(m, pos, pos + 4) = DotNode
    /\ (pos + 5 > Len(m) \/ m[pos + 5] = "/")

\* The loop of undofs_clean_name.
RECURSIVE CleanLoop(_, _, _, _, _)
CleanLoop(m, pos, name, demangled_last_char, retval) ==
    IF pos > Len(m)
        THEN [name |-> name, demangled_last_char |-> demangled_last_char, retval |-> retval]
    ELSE IF AtDotNode(m, pos)
        THEN CleanLoop(m, pos + 5, name, 1, retval)
    ELSE CleanLoop(m, pos + 1, Append(name, m[pos]), 0,
                   IF m[pos] = "/" /\ demangled_last_char = 0 THEN -1 ELSE retval)

\* undofs_clean_name(name, mangled) on strings: its return value (-1 is
\* "skip") and what it leaves in name.
undofs_clean_name_string(mangled) ==
    LET rl == Len(rootdir)
        start == IF Len(mangled) >= rl /\ SubSeq(mangled, 1, rl) = rootdir THEN rl + 1 ELSE 1
        slash == start <= Len(mangled) /\ mangled[start] = "/"
        l == CleanLoop(mangled, IF slash THEN start + 1 ELSE start,
                       IF slash THEN <<"/">> ELSE <<>>, 1, 0)
    IN  [ret |-> IF l.demangled_last_char = 0 THEN -1 ELSE l.retval, name |-> l.name]

\* User paths as strings: a run of one or two '/', then one or two
\* components separated by a run of one or two '/'; and "/".
Components == {<<"a">>, <<"b">>, <<"a">> \o DotNode, DotNode}
Slashes == {<<"/">>, <<"/", "/">>}
UserStrings ==
    {<<"/">>}
        \cup {l \o c : l \in Slashes, c \in Components}
        \cup {l \o c \o m \o d : l \in Slashes, m \in Slashes, c \in Components, d \in Components}

\* Names of backing entries that are no mangled child: the revisions, the
\* markers, the log and the directory's own entries.
EntryNames ==
    {<<"0">>, <<"1">>, <<"d", "i", "r">>, <<"d", "e", "l", "e", "t", "e", "d">>,
     <<".">>, <<".", ".">>, <<"l", "o", "g", ".", "t", "x", "t">>,
     <<"a", ".", "n", "o", "d">>, <<"n", "o", "d", "e">>}

\* what follows the last '/' of a string
RECURSIVE LastComponent(_)
LastComponent(str) ==
    IF str = <<>> \/ str[Len(str)] = "/" THEN <<>>
    ELSE Append(LastComponent(SubSeq(str, 1, Len(str) - 1)), str[Len(str)])

InitMangle ==
    /\ fs = InitStore
    /\ fds = [fd \in 1..MaxFd |-> NoFh]
    /\ last = Call("init", Root, Root, "0")
    /\ wcount = [p \in Paths |-> -1]
    /\ nops = 0
    /\ pc = [t \in Threads |-> "idle"]
    /\ loc = [t \in Threads |-> NoLocals]
    /\ mpath \in UserStrings
    /\ mres = NoMangle

\* a handler computes D(P)
MangleOp ==
    /\ mres.op = "none"
    /\ LET r == undofs_versiondir_path_string(mpath)
       IN  mres' = [op |-> "mangle", arg |-> mpath, ret |-> r.ret, s |-> r.fpath]
    /\ UNCHANGED <<fs, fds, last, wcount, nops, pc, loc, mpath>>

\* readdir of the parent demangles the entry D(P) is known by ("/" has no
\* parent)
CleanOp ==
    /\ mres.op = "mangle" /\ mres.ret = 0
    /\ mpath # <<"/">>
    /\ LET e == LastComponent(mres.s)
           r == undofs_clean_name_string(e)
       IN  mres' = [op |-> "clean", arg |-> e, ret |-> r.ret, s |-> r.name]
    /\ UNCHANGED <<fs, fds, last, wcount, nops, pc, loc, mpath>>

\* readdir demangles another entry of a version directory
CleanEntry(e) ==
    /\ mres.op # "entry"
    /\ LET r == undofs_clean_name_string(e)
       IN  mres' = [op |-> "entry", arg |-> e, ret |-> r.ret, s |-> r.name]
    /\ UNCHANGED <<fs, fds, last, wcount, nops, pc, loc, mpath>>

NextMangle ==
    \/ MangleOp
    \/ CleanOp
    \/ \E e \in EntryNames : CleanEntry(e)

SpecMangle == InitMangle /\ [][NextMangle]_vars


\* the position of the first '/' of str from pos on, Len(str) + 1 without one
RECURSIVE NextSlash(_, _)
NextSlash(str, pos) ==
    IF pos > Len(str) \/ str[pos] = "/" THEN pos ELSE NextSlash(str, pos + 1)

\* the components of a path string, in order
RECURSIVE Split(_)
Split(str) ==
    IF str = <<>> THEN <<>>
    ELSE IF str[1] = "/" THEN Split(Tail(str))
    ELSE LET n == NextSlash(str, 1)
         IN  <<SubSeq(str, 1, n - 1)>> \o Split(SubSeq(str, n, Len(str)))

\* "/" + c + ".node" for each component c, in order
RECURSIVE Nodes(_)
Nodes(cs) ==
    IF cs = <<>> THEN <<>> ELSE <<"/">> \o Head(cs) \o DotNode \o Nodes(Tail(cs))

(***************************************************************************)
(* C23 (as claimed): for a user path P that the mangler accepts, D(P) is R *)
(* followed by "/" + c + ".node" for each component c of P in order, every *)
(* run of '/' in P being collapsed to one separator; D("/") is R.          *)
(***************************************************************************)
C23_MangledPath ==
    (mres.op = "mangle" /\ mres.ret = 0) =>
        mres.s = rootdir \o Nodes(Split(mres.arg))

(***************************************************************************)
(* C23 (amended): D(P) is R, then the run of '/' P starts with, copied as  *)
(* it is, then the components of P in order, each followed by ".node" and  *)
(* separated by a single '/'; D("/") is R.                                 *)
(***************************************************************************)
C23_MangledPathLeadingRun ==
    (mres.op = "mangle" /\ mres.ret = 0) =>
        LET path == mres.arg
            first == SkipSlashes(path, 1)
        IN  mres.s = IF path = <<"/">> THEN rootdir
                     ELSE rootdir \o SubSeq(path, 1, first - 1) \o Tail(Nodes(Split(path)))

C23_Witness ==
    /\ mres.op = "mangle" /\ mres.ret = 0
    /\ mres.arg = <<"/", "/", "a", "/", "/", "b">>
    /\ mres.s = <<"/", "r", "/", "/", "a", ".", "n", "o", "d", "e",
                  "/", "b", ".", "n", "o", "d", "e">>


(***************************************************************************)
(* C24 (as claimed): for a user path P that the mangler accepts,           *)
(* demangling the last component of D(P) succeeds and yields the last      *)
(* component of P, one trailing ".node" being stripped also when the name  *)
(* itself ends in ".node"; demangling a backing name that does not end in  *)
(* ".node" reports "skip" (-1).                                            *)
(***************************************************************************)
C24_DemangleInvertsMangle ==
    /\ mres.op = "clean" =>
          /\ mres.ret = 0
          /\ mres.s = Split(mpath)[Len(Split(mpath))]
          /\ mres.arg = mres.s \o DotNode
    /\ mres.op = "entry" => mres.ret = -1

C24_Witness ==
    /\ mres.op = "clean" /\ mres.ret = 0
    /\ mpath = <<"/", "b", "/", "a">> \o DotNode
    /\ mres.arg = <<"a">> \o DotNode \o DotNode
    /\ mres.s = <<"a">> \o DotNode


(***************************************************************************)
(* C25 (as claimed): latest-revision(P) is the largest number that names a *)
(* revision in D(P), and -1 when D(P) does not exist or holds no revision; *)
(* the other entries of D(P) have no influence.                            *)
(***************************************************************************)
C25_LatestRevision ==
    \A p \in Files :
        undofs_latest_version(fs, p) =
            IF fs[p].exists /\ DOMAIN fs[p].revs # {} THEN Max(DOMAIN fs[p].revs) ELSE -1


(***************************************************************************)
(* C26 (as claimed): with the handlers called one at a time from an empty  *)
(* backing root, no version directory holds both the `dir` marker and a    *)
(* revision.                                                               *)
(***************************************************************************)
C26_DirWithoutRevisions ==
    \A p \in Paths : ~(fs[p].exists /\ fs[p].dir /\ DOMAIN fs[p].revs # {})


C26_Witness ==
    /\ last.op = "create" /\ last.pre = "dir" /\ last.ret = "-EISDIR"
    /\ last.p \in Files /\ LiveDir(fs, last.p) /\ DOMAIN fs[last.p].revs = {}


(***************************************************************************)
(* C27 (as claimed): rmdir(P) on a live directory succeeds and tombstones  *)
(* P whatever P holds; afterwards getattr(P) returns ENOENT and readdir of *)
(* P's parent omits P, while every live child of P is still reached by its *)
(* full path: getattr and a read-open of it give what they gave before,    *)
(* and its revisions are unchanged.                                        *)
(***************************************************************************)
C27_RmdirKeepsChildren ==
    [][\A p \in Files :
        (last'.op = "rmdir" /\ last'.p = p /\ LiveDir(fs, p)) =>
            /\ last'.ret = "0"
            /\ TombDir(fs', p)
            /\ undofs_getattr(fs', p) = "-ENOENT"
            /\ Name(p) \notin undofs_readdir(fs', Parent(p))
            /\ \A c \in Children(p) :
                 (LiveFile(fs, c) \/ LiveDir(fs, c)) =>
                    /\ fs'[c] = fs[c]
                    /\ undofs_getattr(fs', c) = "0"
                    /\ undofs_open(fs', c, FALSE, "exit", NoJunk).ret
                           = undofs_open(fs, c, FALSE, "exit", NoJunk).ret
                    /\ undofs_open(fs', c, FALSE, "exit", NoJunk).fh
                           = undofs_open(fs, c, FALSE, "exit", NoJunk).fh
                    /\ LiveReg(fs, c) =>
                           undofs_open(fs', c, FALSE, "exit", NoJunk).ret = "0"]_vars

C27_Witness ==
    /\ last.op = "rmdir" /\ last.pre = "dir" /\ last.ret = "0"
    /\ last.p = <<"a">> /\ TombDir(fs, <<"a">>)
    /\ LiveReg(fs, <<"a", "c">>)


\* the call c is one of those that may bring the tombstoned p back: a
\* create, mknod, symlink or writing open of p, or a link or rename onto p,
\* that returned success
Revives(c, p) ==
    /\ c.ret = "0"
    /\ \/ c.op \in {"create", "mknod", "symlink", "open_w"} /\ c.p = p
       \/ c.op \in {"link", "rename"} /\ c.q = p

(***************************************************************************)
(* C28 (as claimed): once P is a tombstoned regular file, getattr(P) keeps *)
(* returning ENOENT and a read-open of P keeps failing until a create,     *)
(* mknod, symlink, writing open, link or rename targeting P returns        *)
(* success; in particular a call that returns an error never removes the   *)
(* tombstone.                                                              *)
(***************************************************************************)
C28_TombstoneStays ==
    [][\A p \in Files :
        (TombFile(fs, p) /\ ~Revives(last', p)) =>
            /\ undofs_getattr(fs', p) = "-ENOENT"
            /\ undofs_open(fs', p, FALSE, "exit", NoJunk).ret # "0"]_vars


(***************************************************************************)
(* C29 (as claimed): when rename(P, P') or link(P, P') returns an error    *)
(* because P is absent or tombstoned, P' is left as it was: D(P') is not   *)
(* created, no revision is added to it, and its `deleted` marker is        *)
(* neither added nor removed.                                              *)
(***************************************************************************)
C29_FailedCopyKeepsTarget ==
    [][\A p, q \in Files :
        (/\ last'.op \in {"rename", "link"} /\ last'.p = p /\ last'.q = q /\ p # q
         /\ last'.ret # "0"
         /\ Absent(fs, p) \/ TombFile(fs, p)) =>
            fs'[q] = fs[q]]_vars


(***************************************************************************)
(* C30 (as claimed): when mkdir(P) and create(P) run concurrently on an    *)
(* absent path P, every interleaving ends with P a live directory without  *)
(* revisions or a file without the `dir` marker: D(P) never holds both     *)
(* `dir` and a revision.                                                   *)
(***************************************************************************)
C30_MkdirRacesCreate ==
    (/\ last.op = "init"
     /\ {loc[t].op : t \in Threads} \subseteq {"none", "mkdir", "create"})
        => ~(fs[P].exists /\ fs[P].dir /\ DOMAIN fs[P].revs # {})


====
